---- MODULE Spec2Model ----
(***************************************************************************)
(* A model of src/main.py (rfc-ai-agent): the metadata template codec, the *)
(* Mermaid code and URL extractors, the file extractors and the Streamlit  *)
(* wizard that drives them.                                                *)
(*                                                                         *)
(* Texts are sequences of characters.  A character is a TLA+ string: one   *)
(* of the named characters below, one of the five bold labels (a label's   *)
(* eleven or so characters always occur together in the patterns of the    *)
(* code, so a label is kept as one unit), or a word (a run of letters,     *)
(* digits and punctuation that no pattern of the code tells apart).        *)
(***************************************************************************)
EXTENDS Integers, Sequences, FiniteSets, TLC

\* ------------------------------------------------------------------------
\* Characters

SP  == "SP"    \* ' '
TAB == "TAB"   \* '\t'
NL  == "NL"    \* '\n'
CR  == "CR"    \* '\r'
BS  == "BS"    \* '\\'
LetterN == "n" \* the letter n on its own: '\\' 'n' is an escape of a template

\* \s of the patterns, and what str.strip() removes
Whitespace == {SP, TAB, NL, CR}
\* [\r\n] of the patterns
LineBreaks == {NL, CR}

LABELS == <<"**Author:**", "**Date:**", "**Status:**", "**Reviewers:**", "**Topic:**">>
FIELDS == <<"author", "date", "status", "reviewers", "topic">>
LabelSet == {LABELS[i] : i \in 1..5}

\* words that start with an ASCII letter, and the one that starts with a digit
LetterWords == {"Jane", "Joe", "Draft", "Accepted", "Bob", "X", "lorem"}
DateWord == "2024-01-01"

\* ------------------------------------------------------------------------
\* Strings

Slice(s, from, to) == IF from > to THEN <<>> ELSE SubSeq(s, from, to)

RECURSIVE LStrip(_)
LStrip(s) == IF s # <<>> /\ Head(s) \in Whitespace THEN LStrip(Tail(s)) ELSE s

RECURSIVE RStrip(_)
RStrip(s) ==
    IF s # <<>> /\ s[Len(s)] \in Whitespace THEN RStrip(SubSeq(s, 1, Len(s) - 1)) ELSE s

\* str.strip()
Strip(s) == LStrip(RStrip(s))

\* the first position from pos on where s holds a character of cls; Len(s) + 1
\* when there is none
RECURSIVE FirstIn(_, _, _)
FirstIn(s, pos, cls) ==
    IF pos > Len(s) \/ s[pos] \in cls THEN pos ELSE FirstIn(s, pos + 1, cls)

\* ------------------------------------------------------------------------
\* The backtracking matcher of Python's re, for the pattern elements the code
\* uses: a literal character, a greedy repetition of a character class, and the
\* lazy .*? under re.DOTALL.

Lit(c) == [k |-> "lit", c |-> c, cls |-> {}, min |-> 0]
Greedy(cls, min) == [k |-> "greedy", c |-> "", cls |-> cls, min |-> min]
Lazy == [k |-> "lazy", c |-> "", cls |-> {}, min |-> 0]
\* one of several literal characters (re.IGNORECASE on a literal)
OneOf(cls) == [k |-> "oneof", c |-> "", cls |-> cls, min |-> 0]
\* (```|$): the closing fence, else the end of the string or the place before
\* a final '\n'
FenceOrEnd(c) == [k |-> "fence_or_end", c |-> c, cls |-> {}, min |-> 0]

NoMatch == <<0>>

RECURSIVE RunLen(_, _, _)
RunLen(s, pos, cls) ==
    IF pos <= Len(s) /\ s[pos] \in cls THEN 1 + RunLen(s, pos + 1, cls) ELSE 0

\* $ as re.MULTILINE would read it: before every line feed
AtEndMultiline(s, pos) == pos = Len(s) + 1 \/ s[pos] = NL

\* $ without re.MULTILINE
AtEnd(s, pos) == pos = Len(s) + 1 \/ (pos = Len(s) /\ s[pos] = NL)

\* where element e can end when it starts at pos of s
EndsOf(e, s, pos) ==
    CASE e.k = "lit" -> IF pos <= Len(s) /\ s[pos] = e.c THEN {pos + 1} ELSE {}
      [] e.k = "oneof" -> IF pos <= Len(s) /\ s[pos] \in e.cls THEN {pos + 1} ELSE {}
      [] e.k = "greedy" -> {pos + n : n \in e.min..RunLen(s, pos, e.cls)}
      [] e.k = "lazy" -> pos..(Len(s) + 1)
      [] e.k = "fence_or_end" ->
            (IF pos <= Len(s) /\ s[pos] = e.c THEN {pos + 1} ELSE {})
                \cup (IF AtEnd(s, pos) THEN {pos} ELSE {})

\* before the sets rest of the elements behind e, the positions from which e
\* and these elements match
Extend(e, s, rest) ==
    <<{pos \in 1..(Len(s) + 1) : EndsOf(e, s, pos) \cap rest[1] # {}}>> \o rest

RECURSIVE Viable(_, _, _, _)
\* for each element of pat, the positions of s from which it and the elements
\* behind it match, and last the positions where a match may end; rest holds
\* these sets for the elements behind the k-th.  (rest is never empty: the
\* test has TLC evaluate it before the next call.)
Viable(pat, k, s, rest) ==
    IF k = 0 \/ Len(rest) = 0 THEN rest
    ELSE Viable(pat, k - 1, s, Extend(pat[k], s, rest))

\* the end the engine takes for element e at pos: the first alternative that
\* lets the rest match, which is the longest for a greedy repetition and for
\* the fence before the end, and the shortest for a lazy one
Taken(e, s, pos, ok) ==
    LET ends == EndsOf(e, s, pos) \cap ok
    IN IF e.k = "lazy"
       THEN CHOOSE x \in ends : \A y \in ends : x <= y
       ELSE CHOOSE x \in ends : \A y \in ends : x >= y

RECURSIVE MatchFrom(_, _, _, _, _)
\* The match of pat in s as the backtracking engine finds it: m holds its
\* start and the positions after each of the elements before the k-th, and
\* v[k] the positions from which the elements k.. match.  (m is never empty.)
MatchFrom(pat, k, s, v, m) ==
    IF k > Len(pat) \/ Len(m) = 0 THEN m
    ELSE MatchFrom(pat, k + 1, s, v,
                   Append(m, Taken(pat[k], s, m[Len(m)], v[k + 1])))

\* re.search from position from: <<start>> \o the positions after each
\* element, for the leftmost start that matches; NoMatch when none does
Search(pat, s, from) ==
    LET v == Viable(pat, Len(pat), s, <<1..(Len(s) + 1)>>)
        starts == {pos \in from..(Len(s) + 1) : pos \in v[1]}
    IN IF starts = {} THEN NoMatch
       ELSE MatchFrom(pat, 1, s, v,
                      <<CHOOSE x \in starts : \A y \in starts : x <= y>>)

\* the text elements i..j of the pattern matched, in a match m of Search
Span(s, m, i, j) == Slice(s, m[i], m[j + 1] - 1)

\* ------------------------------------------------------------------------
\* extract_metadata_from_markdown

\* \*\*<Label>:\*\* (.*?)\s*[\r\n]+   then .*? before the next label
ExtractField(f) ==
    <<Lit(LABELS[f]), Lit(SP), Lazy, Greedy(Whitespace, 0), Greedy(LineBreaks, 1)>>
ExtractRegex ==
    ExtractField(1) \o <<Lazy>> \o ExtractField(2) \o <<Lazy>> \o ExtractField(3)
        \o <<Lazy>> \o ExtractField(4) \o <<Lazy>> \o ExtractField(5)

\* the element of either pattern that holds field f's value
ValueElem(f) == 6 * (f - 1) + 3

\* the empty dict
EmptyDict == [k \in {} |-> <<>>]

\* the parser without the .strip() of lines 187-191
extract_metadata_unstripped(md_text) ==
    LET m == Search(ExtractRegex, md_text, 1)
    IN IF m # NoMatch
       THEN [k \in {FIELDS[f] : f \in 1..5} |->
               LET f == CHOOSE i \in 1..5 : FIELDS[i] = k
               IN Span(md_text, m, ValueElem(f), ValueElem(f))]
       ELSE EmptyDict

extract_metadata_from_markdown(md_text) ==
    LET m == Search(ExtractRegex, md_text, 1)
    IN IF m # NoMatch
       THEN [k \in {FIELDS[f] : f \in 1..5} |->
               LET f == CHOOSE i \in 1..5 : FIELDS[i] = k
               IN Strip(Span(md_text, m, ValueElem(f), ValueElem(f)))]
       ELSE EmptyDict

\* ------------------------------------------------------------------------
\* update_metadata_in_markdown

\* (\*\*<Label>:\*\*\s*)(.*?)(\s*[\r\n]+)   then (.*?) before the next label
UpdateField(f) ==
    <<Lit(LABELS[f]), Greedy(Whitespace, 0), Lazy, Greedy(Whitespace, 0),
      Greedy(LineBreaks, 1)>>
UpdatePattern ==
    UpdateField(1) \o <<Lazy>> \o UpdateField(2) \o <<Lazy>> \o UpdateField(3)
        \o <<Lazy>> \o UpdateField(4) \o <<Lazy>> \o UpdateField(5)

\* the group references \g<1> .. \g<19> without their backslash
GROUPREFS == <<"g<1>", "g<2>", "g<3>", "g<4>", "g<5>", "g<6>", "g<7>", "g<8>",
               "g<9>", "g<10>", "g<11>", "g<12>", "g<13>", "g<14>", "g<15>",
               "g<16>", "g<17>", "g<18>", "g<19>">>
GroupRefSet == {GROUPREFS[i] : i \in 1..19}
GroupOf(c) == CHOOSE g \in 1..19 : GROUPREFS[g] = c

\* group g of the pattern as a range of its elements: of field f's four
\* groups, the label with its spaces, the value, the line end, the filler
GroupFirst(g) ==
    LET f == (g - 1) \div 4  r == (g - 1) % 4
    IN 6 * f + (CASE r = 0 -> 1 [] r = 1 -> 3 [] r = 2 -> 4 [] r = 3 -> 6)
GroupLast(g) ==
    LET f == (g - 1) \div 4  r == (g - 1) % 4
    IN 6 * f + (CASE r = 0 -> 2 [] r = 1 -> 3 [] r = 2 -> 5 [] r = 3 -> 6)

\* dict.get(key, "")
Get(d, key) == IF key \in DOMAIN d THEN d[key] ELSE <<>>

\* repl: the raw template with the five values formatted into it
Repl(new_metadata) ==
    <<BS, "g<1>">> \o Get(new_metadata, "author") \o <<BS, "g<3>", BS, "g<4>">>
    \o <<BS, "g<5>">> \o Get(new_metadata, "date") \o <<BS, "g<7>", BS, "g<8>">>
    \o <<BS, "g<9>">> \o Get(new_metadata, "status") \o <<BS, "g<11>", BS, "g<12>">>
    \o <<BS, "g<13>">> \o Get(new_metadata, "reviewers") \o <<BS, "g<15>", BS, "g<16>">>
    \o <<BS, "g<17>">> \o Get(new_metadata, "topic") \o <<BS, "g<19>">>

RECURSIVE TemplateOk(_, _)
\* re's parse of the template from character i on: a backslash at the end or
\* before an ASCII letter that is no escape raises re.error
TemplateOk(t, i) ==
    IF i > Len(t) THEN TRUE
    ELSE IF t[i] # BS THEN TemplateOk(t, i + 1)
    ELSE IF i = Len(t) THEN FALSE
    ELSE IF t[i + 1] \in LetterWords THEN FALSE
    ELSE TemplateOk(t, i + 2)

RECURSIVE Expand(_, _, _, _)
\* the template from character i on, expanded for a match m in s
Expand(t, i, s, m) ==
    IF i > Len(t) THEN <<>>
    ELSE IF t[i] # BS THEN <<t[i]>> \o Expand(t, i + 1, s, m)
    ELSE LET c == t[i + 1]
             rest == Expand(t, i + 2, s, m)
         IN CASE c \in GroupRefSet ->
                   Span(s, m, GroupFirst(GroupOf(c)), GroupLast(GroupOf(c))) \o rest
              [] c = BS -> <<BS>> \o rest
              [] c = LetterN -> <<NL>> \o rest
              \* \202 is an octal escape; the rest of the date follows it
              [] c = DateWord -> <<"\\202", "4-01-01">> \o rest
              [] OTHER -> <<BS, c>> \o rest

RECURSIVE Sub(_, _, _, _)
\* re.sub from position from on: every match, left to right, replaced
Sub(pat, t, s, from) ==
    LET m == Search(pat, s, from)
    IN IF m = NoMatch THEN Slice(s, from, Len(s))
       ELSE Slice(s, from, m[1] - 1) \o Expand(t, 1, s, m)
                \o Sub(pat, t, s, m[Len(m)])

\* what a call that raised returns here
RAISED == <<"<raised>">>

update_metadata_in_markdown(md_text, new_metadata) ==
    IF ~TemplateOk(Repl(new_metadata), 1) THEN RAISED
    ELSE Sub(UpdatePattern, Repl(new_metadata), md_text, 1)

\* ------------------------------------------------------------------------
\* extract_mermaid_code

FENCE == "FENCE"    \* the three backquotes of a code fence
\* the spellings re.IGNORECASE lets "mermaid" match
MermaidWords == {"mermaid", "MERMAID"}

\* ```mermaid(.*?)(```|$)  under re.DOTALL | re.IGNORECASE
MermaidRegex == <<Lit(FENCE), OneOf(MermaidWords), Lazy, FenceOrEnd(FENCE)>>

extract_mermaid_code(response) ==
    LET m == Search(MermaidRegex, response, 1)
    IN IF m # NoMatch THEN Strip(Span(response, m, 3, 3)) ELSE Strip(response)

\* ------------------------------------------------------------------------
\* extract_mermaid_from_mermaid_url
\*
\* A URL is "https://mermaid.live" and the characters behind it.  Its
\* characters are '?', '#', '&', '=', the word graph, the word A-->B, the
\* escapes %41 (of 'A') and %25 (of '%'), '%' and the two hex digits 41.

URL_NOT_EXTRACTED == <<"[Could not extract mermaid code from URL]">>

RECURSIVE Unquote(_)
\* urllib.parse.unquote: every %XX decoded, in one pass
Unquote(s) ==
    IF s = <<>> THEN <<>>
    ELSE CASE Head(s) = "%41" -> <<"A">> \o Unquote(Tail(s))
           [] Head(s) = "%25" -> <<"%">> \o Unquote(Tail(s))
           [] Head(s) = "%" /\ Len(s) > 1 /\ s[2] = "41" ->
                <<"A">> \o Unquote(Tail(Tail(s)))
           [] OTHER -> <<Head(s)>> \o Unquote(Tail(s))

\* str.split(sep, 1): what stands before the first sep, what stands behind it
Before(s, sep) == Slice(s, 1, FirstIn(s, 1, {sep}) - 1)
After(s, sep) == Slice(s, FirstIn(s, 1, {sep}) + 1, Len(s))

\* urlparse(url).fragment and .query, of the characters behind the host
Fragment(rest) == After(rest, "#")
Query(rest) == After(Before(rest, "#"), "?")

RECURSIVE ParseQs(_)
\* urllib.parse.parse_qs: the <<name, value>> pairs of a query, in order,
\* decoded, without the fields that have no value
ParseQs(query) ==
    IF query = <<>> THEN <<>>
    ELSE LET field == Before(query, "&")
             name == Unquote(Before(field, "="))
             value == Unquote(After(field, "="))
         IN (IF value = <<>> THEN <<>> ELSE << <<name, value>> >>)
                \o ParseQs(After(query, "&"))

\* qs.get('graph', [""])[0]
GraphParam(pairs) ==
    IF \E i \in 1..Len(pairs) : pairs[i][1] = <<"graph">>
    THEN pairs[CHOOSE i \in 1..Len(pairs) :
                  /\ pairs[i][1] = <<"graph">>
                  /\ \A j \in 1..(i - 1) : pairs[j][1] # <<"graph">>][2]
    ELSE <<>>

\* the characters behind the host in; urlparse, unquote and parse_qs do not
\* raise on them, so the except branch is never taken
extract_mermaid_from_mermaid_url(rest) ==
    IF Fragment(rest) # <<>> THEN Unquote(Fragment(rest))
    ELSE Unquote(GraphParam(ParseQs(Query(rest))))

\* ------------------------------------------------------------------------
\* Files and the libraries that read them
\*
\* The bytes of a file are a record: fmt, what the bytes are ("text", "docx",
\* "pdf", "png", "corrupt" for bytes no library reads, "empty" for none);
\* utf8, what bytes.decode("utf-8", errors="ignore") leaves of them; text and
\* images, what the docx or pdf library reads out of them.  A file name is
\* the sequence of its parts between the dots.

File(fmt, id, utf8, text, images) ==
    [fmt |-> fmt, id |-> id, utf8 |-> utf8, text |-> text, images |-> images]

\* an image: its signature survives the decoding
Png(id) == File("png", id, <<"PNG">>, <<>>, <<>>)

\* lines 9-24 and 129: which of the optional imports succeeded
Libraries == [Document : BOOLEAN, PyPDF2 : BOOLEAN, fitz : BOOLEAN]

\* str.lower() on a part of a file name
Lower(w) ==
    CASE w = "PNG" -> "png" [] w = "DOCX" -> "docx" [] w = "README" -> "readme"
      [] OTHER -> w

\* file_name.lower().split(".")[-1]
Ext(file_name) == Lower(file_name[Len(file_name)])

\* what a call returned, or that it raised
Returned(v) == [raised |-> FALSE, value |-> v]
Raise == [raised |-> TRUE, value |-> <<>>]

TEXT_DOCX_FAILED == <<"[Could not extract text from DOCX]">>
TEXT_PDF_FAILED == <<"[Could not extract text from PDF]">>

\* Document(BytesIO(file_bytes)) raises on that
DocxOpens(file_bytes) == file_bytes.fmt = "docx"
\* PyPDF2.PdfReader(...) and fitz.open(...) raise on that
PdfOpens(file_bytes) == file_bytes.fmt = "pdf"

extract_images_from_docx(file_bytes, libs) ==
    IF ~libs.Document THEN Returned(<<>>)
    ELSE IF ~DocxOpens(file_bytes) THEN Raise
    ELSE Returned(file_bytes.images)

extract_images_from_pdf(file_bytes, libs) ==
    IF ~libs.PyPDF2 THEN Returned(<<>>)
    ELSE IF ~libs.fitz THEN Returned(<<>>)
    ELSE IF ~PdfOpens(file_bytes) THEN Raise
    ELSE Returned(file_bytes.images)

\* never raises: the last decode has errors="ignore"
extract_text_from_file(file_bytes, file_name, libs) ==
    LET ext == Ext(file_name)
    IN IF ext \in {"md", "txt"} THEN file_bytes.utf8
       ELSE IF ext = "docx" /\ libs.Document
            THEN (IF DocxOpens(file_bytes) THEN file_bytes.text ELSE TEXT_DOCX_FAILED)
       ELSE IF ext = "pdf" /\ libs.PyPDF2
            THEN (IF PdfOpens(file_bytes) THEN file_bytes.text ELSE TEXT_PDF_FAILED)
       ELSE file_bytes.utf8

extract_images_from_file(file_bytes, file_name, libs) ==
    LET ext == Ext(file_name)
    IN IF ext = "docx" THEN extract_images_from_docx(file_bytes, libs)
       ELSE IF ext = "pdf" THEN extract_images_from_pdf(file_bytes, libs)
       ELSE IF ext \in {"png", "jpg", "jpeg"} THEN Returned(<<file_bytes>>)
       ELSE Returned(<<>>)

\* ------------------------------------------------------------------------
\* extract_external_diagram_links and process_document_for_diagrams
\*
\* A URL in a text is one character of the text, of these:

IMAGE_URL == "https://example.com/flow.png"
DRAWIO_URL == "https://app.draw.io/d1"
DRAWIO_PNG_URL == "https://draw.io/export.png"
MERMAID_URL == "https://mermaid.live/edit#A-->B"
MERMAID_BARE_URL == "https://mermaid.live/edit"

\* https?://[^\s]+?\.(?:png|jpg|jpeg|gif)
ImageUrls == {IMAGE_URL, DRAWIO_PNG_URL}
\* https?://[^\s]*draw\.io[^\s]*
DrawioUrls == {DRAWIO_URL, DRAWIO_PNG_URL}
\* https?://mermaid\.live[^\s]*
MermaidUrls == {MERMAID_URL, MERMAID_BARE_URL}

\* the characters of a mermaid.live URL behind its host
UrlRest(url) ==
    IF url = MERMAID_URL THEN <<"/edit", "#", "A-->B">> ELSE <<"/edit">>

\* re.findall of a pattern that matches one character of a set
RECURSIVE FindAll(_, _)
FindAll(s, cls) ==
    IF s = <<>> THEN <<>>
    ELSE (IF Head(s) \in cls THEN <<Head(s)>> ELSE <<>>) \o FindAll(Tail(s), cls)

\* ```mermaid\n(.*?)\n```  under re.DOTALL
BlockRegex == <<Lit(FENCE), Lit("mermaid"), Lit(NL), Lazy, Lit(NL), Lit(FENCE)>>

RECURSIVE FindBlocks(_, _)
\* re.findall of BlockRegex from position from on: group 1 of every match
FindBlocks(s, from) ==
    LET m == Search(BlockRegex, s, from)
    IN IF m = NoMatch THEN <<>>
       ELSE <<Span(s, m, 4, 4)>> \o FindBlocks(s, m[Len(m)])

extract_external_diagram_links(text) ==
    [image_urls |-> FindAll(text, ImageUrls),
     drawio_urls |-> FindAll(text, DrawioUrls),
     mermaid_urls |-> FindAll(text, MermaidUrls),
     mermaid_blocks |-> FindBlocks(text, 1)]

DRAWIO_NOT_IMPLEMENTED == <<"[draw.io to mermaid conversion not implemented]">>
extract_mermaid_from_drawio(drawio_url) == DRAWIO_NOT_IMPLEMENTED

\* download_image over the URLs of a list: net is the set of URLs that answer
\* with a body, the others are dropped
RECURSIVE Downloads(_, _)
Downloads(urls, net) ==
    IF urls = <<>> THEN <<>>
    ELSE (IF Head(urls) \in net THEN <<Png(Head(urls))>> ELSE <<>>)
            \o Downloads(Tail(urls), net)

\* <<images, mermaid_diagrams>>, or the exception of extract_images_from_file
process_document_for_diagrams(file_bytes, file_name, libs, net) ==
    LET images == extract_images_from_file(file_bytes, file_name, libs)
        file_text == extract_text_from_file(file_bytes, file_name, libs)
        links == extract_external_diagram_links(file_text)
    IN IF images.raised THEN Raise
       ELSE Returned(
           <<images.value \o Downloads(links.image_urls, net),
             [i \in 1..Len(links.drawio_urls) |->
                  extract_mermaid_from_drawio(links.drawio_urls[i])]
             \o [i \in 1..Len(links.mermaid_urls) |->
                  extract_mermaid_from_mermaid_url(UrlRest(links.mermaid_urls[i]))]
             \o [i \in 1..Len(links.mermaid_blocks) |->
                  Strip(links.mermaid_blocks[i])]>>)

\* ------------------------------------------------------------------------
\* State

VARIABLES
    \* the codec on a loaded RFC text (manager_comment_ui, lines 762-778)
    rfc_md,            \* the text
    updated_metadata,  \* the dict handed to update_metadata_in_markdown
    md_metadata,       \* what extract_metadata_from_markdown returned
    updated_md,        \* what update_metadata_in_markdown returned
    codec_op,          \* which of the codec's operations has run
    \* one reply of the agent (bedrock_agent_ask, extract_mermaid_code)
    response,          \* the reply, as far as its chunks have come in
    mermaid_code,      \* what extract_mermaid_code returned
    \* one mermaid.live URL (extract_mermaid_from_mermaid_url)
    mermaid_url,       \* the URL behind its host, as far as it is written
    url_code,          \* what extract_mermaid_from_mermaid_url returned
    reply_op,          \* which of the two functions has returned
    \* the session (st.session_state) and what a run of the script leaves
    session_keys,      \* the keys st.session_state holds
    stage,
    file_content,
    file_name,
    upload_any,        \* what the file uploader of step 1 holds
    metadata,
    text_content,
    images,
    external_mermaid_diagrams,
    diagram_type,
    mermaid_keys,      \* the keys mermaid_<idx>
    image_mermaids,
    md_code,
    md_code_edit,
    final_md,          \* manager_comment_ui's final_md
    notice,            \* what the last run showed: a message or an exception
    ai_log,            \* the calls of bedrock_agent_ask in the last run
    mermaid_log,       \* the calls of mermaid_from_image in the last run
    \* the installation and the network
    libs,              \* which of the document libraries are installed
    ocr_available,     \* Pillow and pytesseract are installed
    extract_op         \* which of the extraction functions has returned

codecVars == <<rfc_md, updated_metadata, md_metadata, updated_md, codec_op>>
replyVars == <<response, mermaid_code, mermaid_url, url_code, reply_op>>
fileVars == <<file_content, file_name, text_content, images,
              external_mermaid_diagrams, libs, extract_op>>
sessionVars == <<session_keys, stage, upload_any, metadata, diagram_type,
                 mermaid_keys, image_mermaids, md_code, md_code_edit,
                 final_md, ai_log, mermaid_log, ocr_available>>
vars == <<codecVars, replyVars, fileVars, sessionVars, notice>>

\* no file held: st.session_state.get("file_content") is None
NoFile == File("empty", "", <<>>, <<>>, <<>>)

\* the file uploader holds no file: uploaded_file is None
NoUpload == [content |-> NoFile, name |-> <<>>]

\* the variables a specification does not move, at rest
CodecIdle ==
    /\ rfc_md = <<>>
    /\ updated_metadata = EmptyDict
    /\ md_metadata = EmptyDict
    /\ updated_md = <<>>
    /\ codec_op = "idle"

ReplyIdle ==
    /\ response = <<>>
    /\ mermaid_code = <<>>
    /\ mermaid_url = <<>>
    /\ url_code = <<>>
    /\ reply_op = "idle"

FileIdle ==
    /\ file_content = NoFile
    /\ file_name = <<>>
    /\ text_content = <<>>
    /\ images = <<>>
    /\ external_mermaid_diagrams = <<>>
    /\ libs = [Document |-> TRUE, PyPDF2 |-> TRUE, fitz |-> TRUE]
    /\ extract_op = "idle"

SessionIdle ==
    /\ session_keys = {}
    /\ stage = "login"
    /\ upload_any = NoUpload
    /\ metadata = EmptyDict
    /\ diagram_type = ""
    /\ mermaid_keys = <<>>
    /\ image_mermaids = <<>>
    /\ md_code = <<>>
    /\ md_code_edit = <<>>
    /\ final_md = <<>>
    /\ ai_log = <<>>
    /\ mermaid_log = <<>>
    /\ ocr_available = TRUE
    /\ notice = ""

\* ------------------------------------------------------------------------
\* The codec's inputs: RFC texts and metadata dicts

\* how many filler lines may stand before the header and after a field's line
MaxFillerLines == 1
\* how many headers a text may hold, one after the other
MaxHeaders == 2

\* the spec's scenario: Jane / 2024-01-01 / Draft / Bob / X
CANON == << <<"Jane">>, <<DateWord>>, <<"Draft">>, <<"Bob">>, <<"X">> >>
\* the values of a second header further down the text
SECOND == << <<"Joe">>, <<DateWord>>, <<"Accepted">>, <<"lorem">>, <<"lorem">> >>

RECURSIVE Filler(_)
Filler(n) == IF n = 0 THEN <<>> ELSE <<"lorem", NL>> \o Filler(n - 1)

FieldLine(f, sep, val, end) == <<LABELS[f]>> \o sep \o val \o end
CanonLine(f, values) == FieldLine(f, <<SP>>, values[f], <<NL>>)

RECURSIVE Concat(_)
Concat(ss) == IF ss = <<>> THEN <<>> ELSE Head(ss) \o Concat(Tail(ss))

\* the five lines in the order given by the permutation order of 1..5,
\* without the lines of the fields in drop
HeaderOf(values, order, drop) ==
    Concat([i \in 1..5 |->
        IF order[i] \in drop THEN <<>> ELSE CanonLine(order[i], values)])

\* a header whose field k is written with its own spacing, value, line end
\* and following filler lines
VariedHeader(k, sep, val, end, fill) ==
    Concat([f \in 1..5 |->
        IF f = k THEN FieldLine(f, sep, val, end) \o Filler(fill)
        ELSE CanonLine(f, CANON)])

RECURSIVE MoreHeaders(_)
MoreHeaders(n) ==
    IF n = 0 THEN <<>>
    ELSE HeaderOf(SECOND, <<1, 2, 3, 4, 5>>, {}) \o MoreHeaders(n - 1)

Seps == {<<SP>>, <<SP, SP>>, <<>>, <<TAB>>}
Vals == {<<>>, <<"Jane">>, <<"Jane", SP, "Joe">>, <<"Jane", BS>>, <<BS, "Joe">>,
         <<BS, LetterN>>}
Ends == {<<NL>>, <<SP, SP, NL>>, <<CR, NL>>, <<>>}
Swaps == {<<2, 1, 3, 4, 5>>, <<1, 3, 2, 4, 5>>, <<1, 2, 4, 3, 5>>, <<1, 2, 3, 5, 4>>}

\* the texts a reviewer may load: a header with one field written freely,
\* filler lines before it and after that field, further headers behind it;
\* a header with a line missing or two lines swapped; no header at all
RfcTexts ==
    {Filler(fill) \o VariedHeader(k, sep, val, end, fill) \o MoreHeaders(more) :
        k \in 1..5, sep \in Seps, val \in Vals, end \in Ends,
        fill \in 0..MaxFillerLines, more \in 0..(MaxHeaders - 1)}
    \cup {Filler(pre) \o HeaderOf(CANON, <<1, 2, 3, 4, 5>>, {j}) :
        pre \in 0..MaxFillerLines, j \in 1..5}
    \cup {Filler(pre) \o HeaderOf(CANON, order, {}) :
        pre \in 0..MaxFillerLines, order \in Swaps}
    \cup {Filler(pre) : pre \in 0..MaxFillerLines}

Dict(values) == [k \in {FIELDS[f] : f \in 1..5} |->
                    values[CHOOSE f \in 1..5 : FIELDS[f] = k]]

\* the dicts a caller hands to update_metadata_in_markdown
Metadatas ==
    { Dict(<< <<"Jane">>, <<DateWord>>, <<"Accepted">>, <<"Bob">>, <<"X">> >>),
      Dict(SECOND),
      Dict(<< <<"Joe", SP, "Jane">>, <<DateWord>>, <<"Draft">>, <<>>, <<SP, "X">> >>),
      Dict(<< <<BS, "Joe">>, <<DateWord>>, <<"Draft">>, <<"Bob">>, <<"X">> >>),
      [status |-> <<"Accepted">>] }

\* ------------------------------------------------------------------------
\* The codec's operations on a loaded text

CodecInit ==
    /\ rfc_md \in RfcTexts
    /\ updated_metadata = EmptyDict
    /\ md_metadata = EmptyDict
    /\ updated_md = <<>>
    /\ codec_op = "loaded"
    /\ ReplyIdle /\ FileIdle /\ SessionIdle

\* md_metadata = extract_metadata_from_markdown(rfc_md)   (line 765)
Extract ==
    /\ codec_op = "loaded"
    /\ md_metadata' = extract_metadata_from_markdown(rfc_md)
    /\ codec_op' = "extract"
    /\ UNCHANGED <<rfc_md, updated_metadata, updated_md, replyVars, fileVars, sessionVars, notice>>

\* updated_md = update_metadata_in_markdown(rfc_md, updated_metadata)   (line 778)
Update ==
    /\ codec_op = "loaded"
    /\ \E m \in Metadatas :
        /\ updated_metadata' = m
        /\ updated_md' = update_metadata_in_markdown(rfc_md, m)
    /\ codec_op' = "update"
    /\ UNCHANGED <<rfc_md, md_metadata, replyVars, fileVars, sessionVars, notice>>

\* lines 765-778 with the five fields left as they were parsed
RoundTrip ==
    /\ codec_op = "loaded"
    /\ LET parsed == extract_metadata_from_markdown(rfc_md)
       IN /\ parsed # EmptyDict
          /\ md_metadata' = parsed
          /\ updated_metadata' = parsed
          /\ updated_md' = update_metadata_in_markdown(rfc_md, parsed)
    /\ codec_op' = "roundtrip"
    /\ UNCHANGED <<rfc_md, replyVars, fileVars, sessionVars, notice>>

\* the updated text parsed again
WriteThenRead ==
    /\ codec_op = "update"
    /\ md_metadata' = IF updated_md = RAISED THEN EmptyDict
                      ELSE extract_metadata_from_markdown(updated_md)
    /\ codec_op' = "write_read"
    /\ UNCHANGED <<rfc_md, updated_metadata, updated_md, replyVars, fileVars, sessionVars, notice>>

CodecNext == Extract \/ Update \/ RoundTrip \/ WriteThenRead

\* the codec applied to every text of RfcTexts
SpecCodec == CodecInit /\ [][CodecNext]_vars

\* the parser alone
SpecParse == CodecInit /\ [][Extract]_vars

\* ------------------------------------------------------------------------
\* The codec's claims

Positions(s, c) == {i \in 1..Len(s) : s[i] = c}

\* the five labels stand in s in their order, each with a line break
\* somewhere behind it and before the next one
RECURSIVE LabelsInOrder(_, _, _)
LabelsInOrder(s, pos, f) ==
    \E i \in pos..Len(s) :
        /\ s[i] = LABELS[f]
        /\ \E j \in (i + 1)..Len(s) :
            /\ s[j] \in LineBreaks
            /\ f < 5 => LabelsInOrder(s, j + 1, f + 1)

\* the template's header: each label once, in order, a space behind it, and
\* a line break between it and the next label (behind it, for Topic)
WellFormed(s) ==
    /\ \A f \in 1..5 : Cardinality(Positions(s, LABELS[f])) = 1
    /\ LET at == [f \in 1..5 |-> CHOOSE i \in 1..Len(s) : s[i] = LABELS[f]]
       IN /\ \A f \in 1..4 : at[f] < at[f + 1]
          /\ \A f \in 1..5 :
                /\ at[f] < Len(s)
                /\ s[at[f] + 1] = SP
                /\ FirstIn(s, at[f], LineBreaks) <
                       (IF f < 5 THEN at[f + 1] ELSE Len(s) + 1)

\* what stands between field f's label (and its space) and the end of that
\* line, trimmed
LineValue(s, f) ==
    LET i == CHOOSE i \in 1..Len(s) : s[i] = LABELS[f]
    IN Strip(Slice(s, i + 2, FirstIn(s, i, LineBreaks) - 1))
LineValues(s) ==
    [k \in {FIELDS[f] : f \in 1..5} |->
        LineValue(s, CHOOSE f \in 1..5 : FIELDS[f] = k)]

\* the span of field f's value as the parser reads it, <<first, length>>:
\* its group without the whitespace around it (an empty value stands behind
\* the spaces and tabs that follow the label)
ParsedSpan(s, m, f) ==
    LET raw == Span(s, m, ValueElem(f), ValueElem(f))
    IN <<m[ValueElem(f)] + RunLen(s, m[ValueElem(f)], {SP, TAB}), Len(Strip(raw))>>

\* s with the five spans the parser reads replaced by the values of meta,
\* from field f and position pos on
RECURSIVE Respanned(_, _, _, _, _)
Respanned(s, m, meta, f, pos) ==
    IF f > 5 THEN Slice(s, pos, Len(s))
    ELSE LET sp == ParsedSpan(s, m, f)
         IN Slice(s, pos, sp[1] - 1) \o Get(meta, FIELDS[f])
                \o Respanned(s, m, meta, f + 1, sp[1] + sp[2])

AllFields == {FIELDS[f] : f \in 1..5}
SingleLine(meta) ==
    /\ DOMAIN meta = AllFields
    /\ \A k \in AllFields : \A i \in 1..Len(meta[k]) : meta[k][i] \notin LineBreaks

\* C1: parsing a text that holds the header and writing the parsed values back
\* gives the text itself, character for character.
C1_RoundTripIdentity ==
    codec_op = "roundtrip" => updated_md = rfc_md

\* C2: for a text that holds the header and a dict of five single-line
\* values, parsing the updated text gives that dict back, field for field.
C2_WriteThenRead ==
    (/\ codec_op = "write_read"
     /\ extract_metadata_from_markdown(rfc_md) # EmptyDict
     /\ SingleLine(updated_metadata))
        => md_metadata = updated_metadata

\* C3: an update that returns, of a text that holds the header, differs from
\* the text in the five value spans the parser reads and nowhere else: what
\* stands before the header, between its values and behind its Topic line
\* (a later header too) stays as it was.
C3_OnlyValueSpansChange ==
    (/\ codec_op = "update"
     /\ updated_md # RAISED
     /\ Search(ExtractRegex, rfc_md, 1) # NoMatch)
        => updated_md =
              Respanned(rfc_md, Search(ExtractRegex, rfc_md, 1), updated_metadata, 1, 1)

\* C4: a text in which the five labels do not stand in order, each with a
\* line break behind it, parses to the empty dict and, when the update
\* returns, is updated to itself; and an update that returns changes a text
\* only if the parser finds the header in it.
C4_MismatchIsNoOp ==
    /\ (codec_op = "extract" /\ ~LabelsInOrder(rfc_md, 1, 1))
          => md_metadata = EmptyDict
    /\ (codec_op = "update" /\ updated_md # RAISED /\ ~LabelsInOrder(rfc_md, 1, 1))
          => updated_md = rfc_md
    /\ (codec_op = "update" /\ updated_md # RAISED /\ updated_md # rfc_md)
          => extract_metadata_from_markdown(rfc_md) # EmptyDict

MaxReplyLen == 6

ReplyChars == {FENCE, "mermaid", "MERMAID", NL, "A-->B"}

ReplyInit ==
    /\ response = <<>>
    /\ mermaid_code = <<>>
    /\ mermaid_url = <<>>
    /\ url_code = <<>>
    /\ reply_op = "receiving"
    /\ CodecIdle /\ FileIdle /\ SessionIdle

\* output += event["chunk"]["bytes"].decode("utf-8")   (lines 105-108)
ReceiveChunk ==
    /\ reply_op = "receiving"
    /\ Len(response) < MaxReplyLen
    /\ \E c \in ReplyChars : response' = Append(response, c)
    /\ UNCHANGED <<mermaid_code, mermaid_url, url_code, reply_op,
                   codecVars, fileVars, sessionVars, notice>>

\* extract_mermaid_code(response)   (line 283)
ExtractMermaidCode ==
    /\ reply_op = "receiving"
    /\ mermaid_code' = extract_mermaid_code(response)
    /\ reply_op' = "extract_mermaid_code"
    /\ UNCHANGED <<response, mermaid_url, url_code,
                   codecVars, fileVars, sessionVars, notice>>

MermaidNext == ReceiveChunk \/ ExtractMermaidCode

\* extract_mermaid_code on every reply of up to MaxReplyLen characters
SpecMermaid == ReplyInit /\ [][MermaidNext]_vars

Min(S) == CHOOSE x \in S : \A y \in S : x <= y

\* where a fence stands with the word mermaid, in either case, behind it
OpeningFences(s) == {i \in 1..(Len(s) - 1) : s[i] = FENCE /\ s[i + 1] \in MermaidWords}

\* what stands between the first opening fence and the first fence behind it,
\* or the end of s
BlockContent(s) ==
    LET open == Min(OpeningFences(s))
        closing == {j \in (open + 2)..Len(s) : s[j] = FENCE}
    IN Slice(s, open + 2, IF closing = {} THEN Len(s) ELSE Min(closing) - 1)

\* C6: extract_mermaid_code returns the trimmed content of the first fenced
\* block opened by a fence with "mermaid" in any letter case, up to the first
\* closing fence or, when that is missing, the end of the reply; a reply
\* without such an opening fence is returned whole, trimmed.
C6_FirstMermaidBlock ==
    reply_op = "extract_mermaid_code" =>
        mermaid_code = IF OpeningFences(response) = {} THEN Strip(response)
                       ELSE Strip(BlockContent(response))

\* an upper-case block with its closing fence and text behind it
C6_Witness ==
    /\ reply_op = "extract_mermaid_code"
    /\ response = <<FENCE, "MERMAID", NL, "A-->B", FENCE, "A-->B">>
    /\ mermaid_code = <<"A-->B">>

\* ------------------------------------------------------------------------
\* One mermaid.live URL and extract_mermaid_from_mermaid_url

\* how many characters stand behind the host of a URL at most
MaxUrlLen == 5

UrlChars == {"?", "#", "&", "=", "graph", "A", "%25", "41"}

UrlInit ==
    /\ response = <<>>
    /\ mermaid_code = <<>>
    /\ mermaid_url = <<>>
    /\ url_code = <<>>
    /\ reply_op = "writing"
    /\ CodecIdle /\ FileIdle /\ SessionIdle

\* one more character of a URL found in a text (line 211)
AppendUrlChar ==
    /\ reply_op = "writing"
    /\ Len(mermaid_url) < MaxUrlLen
    /\ \E c \in UrlChars : mermaid_url' = Append(mermaid_url, c)
    /\ UNCHANGED <<response, mermaid_code, url_code, reply_op,
                   codecVars, fileVars, sessionVars, notice>>

\* extract_mermaid_from_mermaid_url(mermaid_url)   (line 256)
ExtractFromUrl ==
    /\ reply_op = "writing"
    /\ url_code' = extract_mermaid_from_mermaid_url(mermaid_url)
    /\ reply_op' = "extract_mermaid_from_mermaid_url"
    /\ UNCHANGED <<response, mermaid_code, mermaid_url,
                   codecVars, fileVars, sessionVars, notice>>

UrlNext == AppendUrlChar \/ ExtractFromUrl

\* extract_mermaid_from_mermaid_url on every URL of up to MaxUrlLen characters
\* behind the host
SpecUrl == UrlInit /\ [][UrlNext]_vars

\* C7: the result is the decoded fragment when the URL has one; otherwise the
\* decoded value of its graph parameter when it has one; otherwise the
\* sentinel, and never the empty string.
C7_FragmentGraphOrSentinel ==
    reply_op = "extract_mermaid_from_mermaid_url" =>
        LET fragment == Fragment(mermaid_url)
            graph == GraphParam(ParseQs(Query(mermaid_url)))
        IN url_code = IF fragment # <<>> THEN Unquote(fragment)
                      ELSE IF graph # <<>> THEN graph
                      ELSE URL_NOT_EXTRACTED

\* ------------------------------------------------------------------------
\* The extraction functions on one file

PlainText == <<"lorem", NL>>
LinkedText ==
    <<"lorem", SP, IMAGE_URL, NL, DRAWIO_URL, NL, MERMAID_URL, NL,
      FENCE, "mermaid", NL, "A-->B", NL, FENCE, NL>>
MixedText == <<DRAWIO_PNG_URL, SP, MERMAID_BARE_URL, NL>>

Files ==
    { File("text", "notes", LinkedText, <<>>, <<>>),
      File("text", "plain", PlainText, <<>>, <<>>),
      File("docx", "report", <<"PK">>, LinkedText, <<Png("img1"), Png("img2")>>),
      File("docx", "memo", <<"PK">>, MixedText, <<>>),
      File("pdf", "paper", <<"%PDF">>, PlainText, <<Png("img3")>>),
      Png("photo"),
      File("corrupt", "broken", <<"PK">>, <<>>, <<>>),
      NoFile }

FileNames ==
    { <<"rfc", "md">>, <<"rfc", "txt">>, <<"rfc", "docx">>, <<"RFC", "DOCX">>,
      <<"rfc", "pdf">>, <<"photo", "png">>, <<"photo", "PNG">>,
      <<"photo", "jpg">>, <<"photo", "jpeg">>, <<"rfc", "v2", "bin">>,
      <<"README">> }

EXCEPTION == "exception"

ExtractInit ==
    /\ file_content \in Files
    /\ file_name \in FileNames
    /\ libs \in Libraries
    /\ text_content = <<>>
    /\ images = <<>>
    /\ external_mermaid_diagrams = <<>>
    /\ extract_op = "loaded"
    /\ CodecIdle /\ ReplyIdle /\ SessionIdle

\* extract_text_from_file(file_content, file_name)
CallExtractText ==
    /\ extract_op = "loaded"
    /\ text_content' = extract_text_from_file(file_content, file_name, libs)
    /\ extract_op' = "extract_text_from_file"
    /\ UNCHANGED <<file_content, file_name, images, external_mermaid_diagrams,
                   libs, codecVars, replyVars, sessionVars, notice>>

\* extract_images_from_file(file_content, file_name)
CallExtractImages ==
    /\ extract_op = "loaded"
    /\ LET r == extract_images_from_file(file_content, file_name, libs)
       IN /\ images' = r.value
          /\ notice' = IF r.raised THEN EXCEPTION ELSE ""
    /\ extract_op' = "extract_images_from_file"
    /\ UNCHANGED <<file_content, file_name, text_content,
                   external_mermaid_diagrams, libs, codecVars, replyVars,
                   sessionVars>>

\* process_document_for_diagrams(file_content, file_name), with the network
\* answering for the URLs of net
CallProcessDocument ==
    /\ extract_op = "loaded"
    /\ \E net \in SUBSET ImageUrls :
        LET r == process_document_for_diagrams(file_content, file_name, libs, net)
        IN /\ images' = IF r.raised THEN <<>> ELSE r.value[1]
           /\ external_mermaid_diagrams' = IF r.raised THEN <<>> ELSE r.value[2]
           /\ notice' = IF r.raised THEN EXCEPTION ELSE ""
    /\ extract_op' = "process_document_for_diagrams"
    /\ UNCHANGED <<file_content, file_name, text_content, libs, codecVars,
                   replyVars, sessionVars>>

ExtractNext == CallExtractText \/ CallExtractImages \/ CallProcessDocument

\* the extraction functions on every file of Files under every name of
\* FileNames and every installation
SpecExtract == ExtractInit /\ [][ExtractNext]_vars

\* C8: no extraction function raises on docx or pdf bytes its library rejects:
\* extract_text_from_file returns the format's sentinel, and
\* extract_images_from_file and process_document_for_diagrams return too.
C8_NoExtractionRaises ==
    /\ extract_op \in {"extract_images_from_file", "process_document_for_diagrams"}
        => notice # EXCEPTION
    /\ extract_op = "extract_text_from_file" =>
        /\ (Ext(file_name) = "docx" /\ libs.Document /\ ~DocxOpens(file_content))
              => text_content = TEXT_DOCX_FAILED
        /\ (Ext(file_name) = "pdf" /\ libs.PyPDF2 /\ ~PdfOpens(file_content))
              => text_content = TEXT_PDF_FAILED

\* C9: a file whose lower-cased extension is png, jpg or jpeg yields the empty
\* text and the image list that holds the file's own bytes and nothing else.
C9_RawImageDispatch ==
    Ext(file_name) \in {"png", "jpg", "jpeg"} =>
        /\ extract_op = "extract_text_from_file" => text_content = <<>>
        /\ extract_op = "extract_images_from_file" =>
              notice # EXCEPTION /\ images = <<file_content>>

\* ------------------------------------------------------------------------
\* The agent, the OCR and the two functions that call the agent

\* what invoke_agent does with a prompt: it answers with a text, or it raises
AgentSaid(text) == [ok |-> TRUE, text |-> text]
AgentFailed == [ok |-> FALSE, text |-> <<>>]

BEDROCK_ERROR == <<"[Bedrock Agent Error: ...]">>

\* the text bedrock_agent_ask returns for it
bedrock_agent_ask(outcome) ==
    IF outcome.ok THEN Strip(outcome.text) ELSE BEDROCK_ERROR

OCR_NOT_INSTALLED == <<"[OCR not available: Tesseract or Pillow is not installed]">>
OCR_FAILED == <<"[OCR not available: ...]">>

\* pytesseract.image_to_string on the images of Files
OcrOf(id) ==
    CASE id = "img1" -> <<"login", SP, "flow", NL>>
      [] id = "photo" -> <<SP, NL>>
      [] OTHER -> <<>>

ocr_image_bytes(image_bytes, available) ==
    IF ~available THEN OCR_NOT_INSTALLED
    ELSE IF image_bytes.fmt # "png" THEN OCR_FAILED
    ELSE OcrOf(image_bytes.id)

NO_DESCRIPTION == <<"[No OCR or image description available]">>

\* a call of bedrock_agent_ask by mermaid_from_image: what its prompt holds,
\* and what invoke_agent did
MermaidCall(description, type, outcome) ==
    [by |-> "mermaid_from_image", description |-> description,
     diagram_type |-> type, outcome |-> outcome]

\* mermaid_from_image without lines 268-269
mermaid_from_image_unguarded(description, type, outcome) ==
    [result |-> extract_mermaid_code(bedrock_agent_ask(outcome)),
     calls |-> <<MermaidCall(description, type, outcome)>>]

\* what mermaid_from_image returns, and the calls of bedrock_agent_ask it makes
mermaid_from_image(description, type, outcome) ==
    IF Strip(description) = <<>>
    THEN [result |-> NO_DESCRIPTION, calls |-> <<>>]
    ELSE [result |-> extract_mermaid_code(bedrock_agent_ask(outcome)),
          calls |-> <<MermaidCall(description, type, outcome)>>]

RECURSIVE Collapse(_)
\* " ".join(text.split()) of a text without leading whitespace
Collapse(s) ==
    IF s = <<>> THEN <<>>
    ELSE IF Head(s) \in Whitespace
         THEN (IF LStrip(s) = <<>> THEN <<>> ELSE <<SP>> \o Collapse(LStrip(s)))
         ELSE <<Head(s)>> \o Collapse(Tail(s))

\* textwrap.shorten(doc_text, width=5000, ...) of a text that fits the width
Shorten(doc_text) == Collapse(LStrip(doc_text))

\* x or y
OrElse(x, y) == IF x = <<>> THEN y ELSE x

\* datetime.now().strftime("%Y-%m-%d")
Today == <<DateWord>>

RECURSIVE DiagramsFrom(_, _)
\* lines 306-308 from the idx-th diagram on: a heading with the diagram's
\* number and its code in a fence
DiagramsFrom(image_mermaids_, idx) ==
    IF idx > Len(image_mermaids_) THEN <<>>
    ELSE <<NL, "#### Diagram", SP, ToString(idx), NL, FENCE, "mermaid", NL>>
             \o image_mermaids_[idx] \o <<NL, FENCE, NL>>
             \o DiagramsFrom(image_mermaids_, idx + 1)

\* the call of bedrock_agent_ask at line 396: the parts of its prompt that
\* are not constant, and what invoke_agent did
Prompt(doc_text, mermaids, meta, custom_prompt, prompt_image_text, outcome) ==
    [by |-> "markdown_from_ai",
     author |-> OrElse(Get(meta, "author"), <<"Unknown">>),
     topic |-> OrElse(Get(meta, "topic"), <<"Unknown">>),
     date |-> OrElse(Get(meta, "date"), Today),
     status |-> OrElse(Get(meta, "status"), <<"Draft">>),
     reviewers |-> OrElse(Get(meta, "reviewers"), <<"N/A">>),
     image_mermaids |-> mermaids,
     diagrams |-> DiagramsFrom(mermaids, 1),
     doc_text |-> Shorten(doc_text),
     custom_prompt |-> custom_prompt,
     prompt_image_text |-> prompt_image_text,
     outcome |-> outcome]

\* markdown_from_ai with lines 286-290 reading no metadata
markdown_from_ai_anonymous(doc_text, mermaids, meta, custom_prompt, prompt_image_text, outcome) ==
    [result |-> bedrock_agent_ask(outcome),
     calls |-> <<Prompt(doc_text, mermaids, EmptyDict, custom_prompt,
                        prompt_image_text, outcome)>>]

\* markdown_from_ai with a check of the reply behind line 396: a reply that is
\* the error string is not returned
markdown_from_ai_validated(doc_text, mermaids, meta, custom_prompt, prompt_image_text, outcome) ==
    [result |-> IF outcome.ok THEN bedrock_agent_ask(outcome) ELSE <<>>,
     calls |-> <<Prompt(doc_text, mermaids, meta, custom_prompt,
                        prompt_image_text, outcome)>>]

\* what markdown_from_ai returns, and the call of bedrock_agent_ask it makes
markdown_from_ai(doc_text, mermaids, meta, custom_prompt, prompt_image_text, outcome) ==
    [result |-> bedrock_agent_ask(outcome),
     calls |-> <<Prompt(doc_text, mermaids, meta, custom_prompt,
                        prompt_image_text, outcome)>>]

\* ------------------------------------------------------------------------
\* What the user and the services hand to the wizard

DIAGRAM_TYPES ==
    <<"flowchart", "sequence", "class", "state", "entity_relationship",
      "gantt", "pie", "gitgraph">>
STATUSES == <<"Draft", "Accepted", "Rejected", "Implemented">>

\* the types the user picks
DiagramChoices == {"flowchart", "sequence"}

\* a document with one image in it and, in its text, a link to an image and
\* three diagrams
Report ==
    File("docx", "report", <<"PK">>,
         <<"lorem", SP, IMAGE_URL, NL, DRAWIO_URL, SP, MERMAID_URL, NL,
           FENCE, "mermaid", NL, "B-->C", NL, FENCE, NL>>,
         <<Png("img1")>>)
Broken == File("corrupt", "broken", <<"PK">>, <<>>, <<>>)
\* a Markdown file without an image or a diagram
Notes == File("text", "notes", <<"notes", NL>>, <<>>, <<>>)

\* st.file_uploader(type=["docx", "pdf", "md", "txt"]): a document, and a file
\* of no bytes, whose uploaded_file.read() is b""
Uploads ==
    { [content |-> Report, name |-> <<"rfc", "docx">>],
      [content |-> NoFile, name |-> <<"empty", "txt">>] }

\* the objects of the buckets
S3Objects ==
    { [content |-> Broken, name |-> <<"RFC", "DOCX">>],
      [content |-> Notes, name |-> <<"notes", "md">>] }

\* requirements.txt installed
Installed == [Document |-> TRUE, PyPDF2 |-> TRUE, fitz |-> TRUE]

\* the files the session comes to hold, and which of the linked images the
\* network delivers
Holdable == Uploads \cup S3Objects
Networks == SUBSET {IMAGE_URL}

\* lines 530 and 531 on them, with the libraries installed
Processed ==
    [f \in Holdable, net \in Networks |->
        process_document_for_diagrams(f.content, f.name, Installed, net)]
Text == [f \in Holdable |-> extract_text_from_file(f.content, f.name, Installed)]

\* the file the session holds
Held == [content |-> file_content, name |-> file_name]

\* what the user enters at the metadata stage: a date, a status and a topic,
\* no author and no reviewers
UserMetadatas == { Dict(<< <<>>, <<DateWord>>, <<"Accepted">>, <<>>, <<"X">> >>) }

\* what the user types into an OCR text area, and into the one below it
Descriptions == { <<>>, <<SP, NL>>, <<"login", SP, "flow">> }

\* invoke_agent on a diagram prompt: a reply with the diagram in a fence
MermaidOutcomes ==
    { AgentSaid(<<FENCE, "mermaid", NL, "A-->B", NL, FENCE, NL>>) }

MarkdownOutcomes == { AgentFailed, AgentSaid(<<"# RFC", NL>>) }

\* what the user makes of a draft and of a diagram
DraftEdits == { <<"# RFC", NL, "edited">> }
MermaidEdits == { <<"A-->B">> }
\* the external diagrams the user edits: the first
EditedExternals == {1}

\* custom_prompt and prompt_image_text of a regeneration
PromptExtras ==
    { [custom_prompt |-> <<"shorter">>, prompt_image_text |-> <<"context">>] }

\* the RFC texts of the buckets
ReviewTexts ==
    { HeaderOf(CANON, <<1, 2, 3, 4, 5>>, {}),
      HeaderOf(<< <<"Jane">>, <<DateWord>>, <<"lorem">>, <<"Bob">>, <<"X">> >>,
               <<1, 2, 3, 4, 5>>, {}),
      HeaderOf(CANON, <<1, 2, 3, 4, 5>>, {3}),
      <<>> }

\* what the reviewer does to the parsed fields
ReviewEdits == {"keep", "accept", "rename"}
Edited(md, edit) ==
    CASE edit = "accept" -> [md EXCEPT !["status"] = <<"Accepted">>]
      [] edit = "rename" -> [md EXCEPT !["author"] = <<BS, "Joe">>]
      [] OTHER -> md

Comments == { <<>>, <<"LGTM">> }

\* ------------------------------------------------------------------------
\* The wizard: one action for each thing the user does, with the run of the
\* script it triggers and the run that follows a st.rerun().  The keys of the
\* widgets and the keys ocr_text_<idx> and mermaid_<idx> are not listed in
\* session_keys.

LoginKeys ==
    {"s3_client", "aws_access_key", "aws_secret_key", "bedrock_agent_id",
     "bedrock_alias_id", "bedrock_region"}
FileKeys == {"file_origin", "file_content", "file_name"}

FILL_IN == "Fill in all fields."
LOGIN_FAILED == "Login failed"
NO_METADATA == "No RFC metadata fields detected."
UPLOADED == "uploaded"
UPLOAD_FAILED == "Upload failed"

\* the variables the wizard never moves
fixedVars == <<replyVars, libs, ocr_available, extract_op, codec_op>>
reviewVars == <<rfc_md, updated_metadata, md_metadata, updated_md, final_md>>
heldVars == <<file_content, file_name, upload_any>>
extractedVars == <<text_content, images, external_mermaid_diagrams>>
diagramVars == <<diagram_type, mermaid_keys, image_mermaids>>
draftVars == <<md_code, md_code_edit>>

\* a run that calls neither mermaid_from_image nor markdown_from_ai
NoCalls == ai_log' = <<>> /\ mermaid_log' = <<>>

WizardInit ==
    /\ session_keys = {"stage"}
    /\ stage = "login"
    /\ metadata = EmptyDict
    /\ diagram_type = ""
    /\ mermaid_keys = <<>>
    /\ image_mermaids = <<>>
    /\ md_code = <<>>
    /\ md_code_edit = <<>>
    /\ final_md = <<>>
    /\ ai_log = <<>>
    /\ mermaid_log = <<>>
    /\ notice = ""
    /\ ocr_available = TRUE
    /\ file_content = NoFile
    /\ file_name = <<>>
    /\ upload_any = NoUpload
    /\ text_content = <<>>
    /\ images = <<>>
    /\ external_mermaid_diagrams = <<>>
    /\ libs = Installed
    /\ extract_op = "idle"
    /\ CodecIdle /\ ReplyIdle

\* login_ui, lines 416-431
Login ==
    /\ stage = "login"
    /\ \E outcome \in {"missing", "refused", "ok"} :
        IF outcome = "ok"
        THEN /\ session_keys' = session_keys \cup LoginKeys
             /\ stage' = "choose_rfc_or_new"
             /\ notice' = ""
        ELSE /\ notice' = IF outcome = "missing" THEN FILL_IN ELSE LOGIN_FAILED
             /\ UNCHANGED <<session_keys, stage>>
    /\ NoCalls
    /\ UNCHANGED <<fixedVars, reviewVars, heldVars, extractedVars, diagramVars,
                   draftVars, metadata>>

\* lines 439-442
ChooseNew ==
    /\ stage = "choose_rfc_or_new"
    /\ session_keys' = session_keys \cup {"choose_rfc_flow"}
    /\ stage' = "file_choice"
    /\ notice' = ""
    /\ NoCalls
    /\ UNCHANGED <<fixedVars, reviewVars, heldVars, extractedVars, diagramVars,
                   draftVars, metadata>>

\* final_md with the comment, lines 783-787
WithComment(md, comment, append) ==
    IF Strip(comment) # <<>> /\ append
    THEN md \o <<NL, NL, "---", NL, "## Manager Comments", NL>> \o comment \o <<NL>>
    ELSE IF Strip(comment) # <<>>
    THEN <<"## Manager Comments", NL>> \o comment \o <<NL, NL, "---", NL>> \o md
    ELSE md

ReviewRun(rfc, parsed, edited, updated, final, shown) ==
    [rfc_md |-> rfc, md_metadata |-> parsed, updated_metadata |-> edited,
     updated_md |-> updated, final_md |-> final, notice |-> shown]

\* line 765 on the texts of the buckets
Parsed == [rfc \in ReviewTexts |-> extract_metadata_from_markdown(rfc)]

\* line 778 on them, for what the reviewer does to the fields
Updated ==
    [rfc \in ReviewTexts, edit \in ReviewEdits |->
        IF Parsed[rfc] = EmptyDict THEN rfc
        ELSE update_metadata_in_markdown(rfc, Edited(Parsed[rfc], edit))]

\* manager_comment_ui, lines 750-790, on the text rfc of the selected object
Review(rfc, edit, comment, append) ==
    LET parsed == Parsed[rfc]
    IN IF rfc = <<>> THEN ReviewRun(rfc, EmptyDict, EmptyDict, <<>>, <<>>, "")
       ELSE IF parsed = EmptyDict
       THEN ReviewRun(rfc, EmptyDict, EmptyDict, <<>>,
                      WithComment(rfc, comment, append), NO_METADATA)
       ELSE IF \A i \in 1..Len(STATUSES) : parsed["status"] # <<STATUSES[i]>>
       THEN ReviewRun(rfc, parsed, EmptyDict, <<>>, <<>>, EXCEPTION)
       ELSE LET edited == Edited(parsed, edit)
                updated == Updated[rfc, edit]
            IN IF updated = RAISED
               THEN ReviewRun(rfc, parsed, edited, <<>>, <<>>, EXCEPTION)
               ELSE ReviewRun(rfc, parsed, edited, updated,
                              WithComment(updated, comment, append), "")

\* the runs of manager_comment_ui: on the object the select boxes show first,
\* with the fields as parsed, no comment and the box ticked; and on what the
\* reviewer selects, edits, writes and ticks
FirstReviews == {Review(rfc, "keep", <<>>, TRUE) : rfc \in ReviewTexts}
Reviews ==
    {Review(rfc, edit, comment, append) :
        rfc \in ReviewTexts, edit \in ReviewEdits, comment \in Comments,
        append \in BOOLEAN}

Reviewed(run) ==
    /\ rfc_md' = run.rfc_md
    /\ md_metadata' = run.md_metadata
    /\ updated_metadata' = run.updated_metadata
    /\ updated_md' = run.updated_md
    /\ final_md' = run.final_md
    /\ notice' = run.notice

\* lines 444-447, and manager_comment_ui on the object the select boxes show
ChooseExisting ==
    /\ stage = "choose_rfc_or_new"
    /\ session_keys' = session_keys \cup {"choose_rfc_flow"}
    /\ stage' = "manager_comment"
    /\ \E run \in FirstReviews : Reviewed(run)
    /\ NoCalls
    /\ UNCHANGED <<fixedVars, heldVars, extractedVars, diagramVars, draftVars,
                   metadata>>

\* lines 448-451
ChooseBack ==
    /\ stage = "choose_rfc_or_new"
    /\ stage' = "login"
    /\ notice' = ""
    /\ NoCalls
    /\ UNCHANGED <<fixedVars, reviewVars, heldVars, extractedVars, diagramVars,
                   draftVars, metadata, session_keys>>

\* manager_comment_ui after the reviewer selects an object, edits a field,
\* writes a comment or ticks the box
ReviewRfc ==
    /\ stage = "manager_comment"
    /\ \E run \in Reviews : Reviewed(run)
    /\ NoCalls
    /\ UNCHANGED <<fixedVars, heldVars, extractedVars, diagramVars, draftVars,
                   metadata, session_keys, stage>>

\* lines 796-802
UploadReview ==
    /\ stage = "manager_comment"
    /\ rfc_md # <<>>
    /\ notice # EXCEPTION
    /\ \E ok \in BOOLEAN : notice' = IF ok THEN UPLOADED ELSE UPLOAD_FAILED
    /\ NoCalls
    /\ UNCHANGED <<fixedVars, reviewVars, heldVars, extractedVars, diagramVars,
                   draftVars, metadata, session_keys, stage>>

\* lines 803-805
BackFromManager ==
    /\ stage = "manager_comment"
    /\ stage' = "choose_rfc_or_new"
    /\ Reviewed(ReviewRun(<<>>, EmptyDict, EmptyDict, <<>>, <<>>, ""))
    /\ NoCalls
    /\ UNCHANGED <<fixedVars, heldVars, extractedVars, diagramVars, draftVars,
                   metadata, session_keys>>

\* lines 466-471 of a run of file_choice_ui: the file the uploader holds
\* is put into the session
Uploaded ==
    IF upload_any = NoUpload
    THEN [content |-> file_content, name |-> file_name]
    ELSE upload_any

\* lines 461-472: the user puts a file into the uploader
UploadFile ==
    /\ stage = "file_choice"
    /\ \E u \in Uploads :
        /\ upload_any' = u
        /\ file_content' = u.content
        /\ file_name' = u.name
    /\ session_keys' = session_keys \cup FileKeys
    /\ notice' = "uploaded"
    /\ NoCalls
    /\ UNCHANGED <<fixedVars, reviewVars, extractedVars, diagramVars, draftVars,
                   metadata, stage>>

\* lines 461-466: the user takes the file out of the uploader
ClearUpload ==
    /\ stage = "file_choice"
    /\ upload_any # NoUpload
    /\ upload_any' = NoUpload
    /\ notice' = ""
    /\ NoCalls
    /\ UNCHANGED <<fixedVars, reviewVars, extractedVars, diagramVars, draftVars,
                   metadata, stage, session_keys, file_content, file_name>>

\* lines 466-492; download_fileobj raises when the service refuses
LoadFromS3 ==
    /\ stage = "file_choice"
    /\ "s3_client" \in session_keys
    /\ \E o \in S3Objects, ok \in BOOLEAN :
        IF ok
        THEN /\ file_content' = o.content
             /\ file_name' = o.name
             /\ session_keys' = session_keys \cup FileKeys \cup {"bucket"}
             /\ notice' = "loaded"
        ELSE /\ file_content' = Uploaded.content
             /\ file_name' = Uploaded.name
             /\ notice' = EXCEPTION
             /\ UNCHANGED session_keys
    /\ NoCalls
    /\ UNCHANGED <<fixedVars, reviewVars, extractedVars, diagramVars, draftVars,
                   metadata, stage, upload_any>>

\* lines 515-522
DefaultMetadata == Dict(<< <<>>, Today, <<"Draft">>, <<>>, <<>> >>)

\* "Continue" with a button that line 502 never disables
ContinueWithoutFile ==
    /\ stage = "file_choice"
    /\ file_content' = Uploaded.content
    /\ file_name' = Uploaded.name
    /\ upload_any' = NoUpload
    /\ stage' = "metadata"
    /\ metadata' = IF "metadata" \in session_keys THEN metadata ELSE DefaultMetadata
    /\ session_keys' = session_keys \cup {"metadata"}
    /\ notice' = ""
    /\ NoCalls
    /\ UNCHANGED <<fixedVars, reviewVars, extractedVars, diagramVars, draftVars>>

\* "Continue", lines 466-471 and 497-506, and metadata_ui's first lines; the
\* button is there to click when the run before left a file in the session
ContinueFileChoice ==
    /\ stage = "file_choice"
    /\ file_content.fmt # "empty"
    /\ file_name # <<>>
    /\ file_content' = Uploaded.content
    /\ file_name' = Uploaded.name
    /\ upload_any' = NoUpload
    /\ stage' = "metadata"
    /\ metadata' = IF "metadata" \in session_keys THEN metadata ELSE DefaultMetadata
    /\ session_keys' = session_keys \cup {"metadata"}
    /\ notice' = ""
    /\ NoCalls
    /\ UNCHANGED <<fixedVars, reviewVars, extractedVars, diagramVars, draftVars>>

\* "Back", lines 466-471 and 507-509
BackToChoose ==
    /\ stage = "file_choice"
    /\ file_content' = Uploaded.content
    /\ file_name' = Uploaded.name
    /\ upload_any' = NoUpload
    /\ stage' = "choose_rfc_or_new"
    /\ notice' = ""
    /\ NoCalls
    /\ UNCHANGED <<fixedVars, reviewVars, extractedVars, diagramVars, draftVars,
                   metadata, session_keys>>

Max(a, b) == IF a > b THEN a ELSE b

\* what the OCR text area of an image holds, the key ocr_text_<idx>: what
\* ocr_image_bytes read, or what the user wrote over it
OcrTexts(image_bytes) ==
    {ocr_image_bytes(image_bytes, ocr_available)} \cup Descriptions

\* the keys mermaid_<idx> after line 587 has run for n images
Padded(codes, n) ==
    [i \in 1..Max(n, Len(codes)) |-> IF i <= Len(codes) THEN codes[i] ELSE <<>>]

\* image_mermaids with the external diagrams appended before the images
ShownExternalFirst(codes, n, external) == external \o [i \in 1..n |-> codes[i]]

\* image_mermaids as lines 552-602 build it
Shown(codes, n, external) == [i \in 1..n |-> codes[i]] \o external

\* what the text areas of the external diagrams hold, lines 591-599, in a run
\* of image_mermaid_ui that follows another: what they held in that one
ExternalCodes == SubSeq(image_mermaids, Len(images) + 1, Len(image_mermaids))

\* image_mermaid_ui when the stage is entered: the select box shows its
\* first option
RenderDiagrams(imgs, external) ==
    /\ diagram_type' = DIAGRAM_TYPES[1]
    /\ mermaid_keys' = Padded(mermaid_keys, Len(imgs))
    /\ image_mermaids' = Shown(Padded(mermaid_keys, Len(imgs)), Len(imgs), external)

DiagramKeys ==
    {"text_content", "images", "external_mermaid_diagrams", "diagram_type",
     "image_mermaids"}

\* "Extract & Convert with AI" with lines 530-531 and 536-538 run only when
\* the session holds no extracted text yet
ExtractConvertOnce ==
    /\ stage = "metadata"
    /\ \E typed \in UserMetadatas, net \in Networks :
        LET r == Processed[Held, net]
            held == "text_content" \in session_keys
        IN IF r.raised /\ ~held
           THEN /\ notice' = EXCEPTION
                /\ UNCHANGED <<metadata, extractedVars, diagramVars, stage,
                               session_keys>>
           ELSE /\ metadata' = typed
                /\ text_content' = IF held THEN text_content ELSE Text[Held]
                /\ images' = IF held THEN images ELSE r.value[1]
                /\ external_mermaid_diagrams' =
                        IF held THEN external_mermaid_diagrams ELSE r.value[2]
                /\ stage' = "image_mermaid"
                /\ session_keys' = session_keys \cup DiagramKeys
                /\ RenderDiagrams(images', external_mermaid_diagrams')
                /\ notice' = ""
    /\ NoCalls
    /\ UNCHANGED <<fixedVars, reviewVars, heldVars, draftVars>>

\* "Extract & Convert with AI", lines 529-540, and image_mermaid_ui behind it
ExtractConvert ==
    /\ stage = "metadata"
    /\ \E typed \in UserMetadatas, net \in Networks :
        LET r == Processed[Held, net]
        IN IF r.raised
           THEN /\ notice' = EXCEPTION
                /\ UNCHANGED <<metadata, extractedVars, diagramVars, stage,
                               session_keys>>
           ELSE /\ metadata' = typed
                /\ text_content' = Text[Held]
                /\ images' = r.value[1]
                /\ external_mermaid_diagrams' = r.value[2]
                /\ stage' = "image_mermaid"
                /\ session_keys' = session_keys \cup DiagramKeys
                /\ RenderDiagrams(r.value[1], r.value[2])
                /\ notice' = ""
    /\ NoCalls
    /\ UNCHANGED <<fixedVars, reviewVars, heldVars, draftVars>>

\* lines 541-543
BackToFileChoice ==
    /\ stage = "metadata"
    /\ stage' = "file_choice"
    /\ notice' = ""
    /\ NoCalls
    /\ UNCHANGED <<fixedVars, reviewVars, heldVars, extractedVars, diagramVars,
                   draftVars, metadata, session_keys>>

\* lines 556-560
SelectDiagramType ==
    /\ stage = "image_mermaid"
    /\ \E type \in DiagramChoices :
        /\ type # diagram_type
        /\ diagram_type' = type
    /\ notice' = ""
    /\ NoCalls
    /\ UNCHANGED <<fixedVars, reviewVars, heldVars, extractedVars, draftVars,
                   metadata, session_keys, stage, mermaid_keys, image_mermaids>>

\* "Generate Mermaid for Image i", lines 564-602: ocr_text is what the OCR
\* text area holds, manual what the one below it holds, which is shown when
\* the first is blank
GenerateMermaid ==
    /\ stage = "image_mermaid"
    /\ \E i \in 1..Len(images), outcome \in MermaidOutcomes :
       \E ocr_text \in OcrTexts(images[i]), manual \in Descriptions :
        LET description == IF Strip(ocr_text) = <<>> THEN manual ELSE ocr_text
            run == mermaid_from_image(description, diagram_type, outcome)
            codes == [mermaid_keys EXCEPT ![i] = run.result]
        IN /\ mermaid_keys' = codes
           /\ image_mermaids' = Shown(codes, Len(images), ExternalCodes)
           /\ ai_log' = run.calls
           /\ mermaid_log' = <<[path |-> "generate", idx |-> i,
                                description |-> description,
                                result |-> run.result]>>
    /\ notice' = ""
    /\ UNCHANGED <<fixedVars, reviewVars, heldVars, extractedVars, draftVars,
                   metadata, session_keys, stage, diagram_type>>

\* lines 581-588: the user edits the Mermaid code of an image
EditMermaid ==
    /\ stage = "image_mermaid"
    /\ \E i \in 1..Len(images), typed \in MermaidEdits :
        /\ typed # mermaid_keys[i]
        /\ LET codes == [mermaid_keys EXCEPT ![i] = typed]
           IN /\ mermaid_keys' = codes
              /\ image_mermaids' = Shown(codes, Len(images), ExternalCodes)
    /\ notice' = ""
    /\ NoCalls
    /\ UNCHANGED <<fixedVars, reviewVars, heldVars, extractedVars, draftVars,
                   metadata, session_keys, stage, diagram_type>>

\* lines 591-602: the user edits the code of an external diagram
EditExternal ==
    /\ stage = "image_mermaid"
    /\ \E j \in EditedExternals, typed \in MermaidEdits :
        /\ j <= Len(external_mermaid_diagrams)
        /\ typed # image_mermaids[Len(images) + j]
        /\ image_mermaids' = [image_mermaids EXCEPT ![Len(images) + j] = typed]
    /\ notice' = ""
    /\ NoCalls
    /\ UNCHANGED <<fixedVars, reviewVars, heldVars, extractedVars, draftVars,
                   metadata, session_keys, stage, diagram_type, mermaid_keys>>

\* "Generate RFC Markdown with AI", lines 603-615
GenerateRfc ==
    /\ stage = "image_mermaid"
    /\ \E outcome \in MarkdownOutcomes :
        LET run == markdown_from_ai(text_content, image_mermaids, metadata,
                                    <<>>, <<>>, outcome)
        IN /\ md_code' = run.result
           /\ md_code_edit' = run.result
           /\ ai_log' = run.calls
    /\ mermaid_log' = <<>>
    /\ stage' = "md_review"
    /\ session_keys' = session_keys \cup {"md_code", "md_code_edit"}
    /\ notice' = ""
    /\ UNCHANGED <<fixedVars, reviewVars, heldVars, extractedVars, diagramVars,
                   metadata>>

\* lines 616-618
BackToMetadata ==
    /\ stage = "image_mermaid"
    /\ stage' = "metadata"
    /\ notice' = ""
    /\ NoCalls
    /\ UNCHANGED <<fixedVars, reviewVars, heldVars, extractedVars, diagramVars,
                   draftVars, metadata, session_keys>>

\* lines 629-636: the user edits the draft
EditDraft ==
    /\ stage = "md_review"
    /\ \E new_code \in DraftEdits :
        /\ new_code # md_code_edit
        /\ md_code_edit' = new_code
    /\ notice' = ""
    /\ NoCalls
    /\ UNCHANGED <<fixedVars, reviewVars, heldVars, extractedVars, diagramVars,
                   metadata, session_keys, stage, md_code>>

\* "Regenerate RFC Document with AI", lines 672-702.  kept[i] is what the
\* session holds under ocr_text_<idx>: what the text area of step 3 held, or
\* nothing when the key is gone with the text area.  doc_text is the first
\* argument of markdown_from_ai at line 690.
RegenerateFrom(doc_text) ==
    /\ stage = "md_review"
    /\ \E chosen_type \in DiagramChoices, extras \in PromptExtras,
          kept \in [{i \in 1..Len(images) :
                        Strip(ocr_image_bytes(images[i], ocr_available)) = <<>>}
                    -> Descriptions],
          outcomes \in [1..Len(images) -> MermaidOutcomes],
          outcome \in MarkdownOutcomes :
        LET ocr_desc(i) ==
                LET read == ocr_image_bytes(images[i], ocr_available)
                IN IF Strip(read) # <<>> THEN read ELSE kept[i]
            runs == [i \in 1..Len(images) |->
                        mermaid_from_image(ocr_desc(i), chosen_type, outcomes[i])]
            new_image_mermaids ==
                [i \in 1..Len(images) |-> runs[i].result] \o external_mermaid_diagrams
            run == markdown_from_ai(doc_text, new_image_mermaids, metadata,
                                    extras.custom_prompt, extras.prompt_image_text,
                                    outcome)
        IN /\ image_mermaids' = new_image_mermaids
           /\ md_code' = run.result
           /\ md_code_edit' = run.result
           /\ diagram_type' = chosen_type
           /\ ai_log' = Concat([i \in 1..Len(images) |-> runs[i].calls]) \o run.calls
           /\ mermaid_log' = [i \in 1..Len(images) |->
                                 [path |-> "regenerate", idx |-> i,
                                  description |-> ocr_desc(i),
                                  result |-> runs[i].result]]
    /\ notice' = ""
    /\ UNCHANGED <<fixedVars, reviewVars, heldVars, extractedVars, metadata,
                   session_keys, stage, mermaid_keys>>

\* the regeneration with the extracted text of the file for doc_text
RegenerateFromSource == RegenerateFrom(text_content)

\* line 691: st.session_state.md_code_edit
Regenerate == RegenerateFrom(md_code_edit)

\* lines 706-728
UploadMarkdown ==
    /\ stage = "md_review"
    /\ \E ok \in BOOLEAN : notice' = IF ok THEN UPLOADED ELSE UPLOAD_FAILED
    /\ NoCalls
    /\ UNCHANGED <<fixedVars, reviewVars, heldVars, extractedVars, diagramVars,
                   draftVars, metadata, session_keys, stage>>

\* lines 737-739, and image_mermaid_ui behind them
BackToDiagrams ==
    /\ stage = "md_review"
    /\ stage' = "image_mermaid"
    /\ RenderDiagrams(images, external_mermaid_diagrams)
    /\ notice' = ""
    /\ NoCalls
    /\ UNCHANGED <<fixedVars, reviewVars, heldVars, extractedVars, draftVars,
                   metadata, session_keys>>

\* "Start Over (Logout)", lines 740-744
Logout ==
    /\ stage = "md_review"
    /\ session_keys' = {"stage"}
    /\ stage' = "login"
    /\ file_content' = NoFile
    /\ file_name' = <<>>
    /\ upload_any' = NoUpload
    /\ metadata' = EmptyDict
    /\ text_content' = <<>>
    /\ images' = <<>>
    /\ external_mermaid_diagrams' = <<>>
    /\ diagram_type' = ""
    /\ mermaid_keys' = <<>>
    /\ image_mermaids' = <<>>
    /\ md_code' = <<>>
    /\ md_code_edit' = <<>>
    /\ notice' = ""
    /\ NoCalls
    /\ UNCHANGED <<fixedVars, reviewVars>>

Init == WizardInit

Next ==
    \/ Login \/ ChooseNew \/ ChooseExisting \/ ChooseBack
    \/ ReviewRfc \/ UploadReview \/ BackFromManager
    \/ UploadFile \/ ClearUpload \/ LoadFromS3 \/ ContinueFileChoice \/ BackToChoose
    \/ ExtractConvert \/ BackToFileChoice
    \/ SelectDiagramType \/ GenerateMermaid \/ EditMermaid \/ EditExternal
    \/ GenerateRfc \/ BackToMetadata
    \/ EditDraft \/ Regenerate \/ UploadMarkdown \/ BackToDiagrams \/ Logout

\* the wizard, from the first run of the script on
Spec == Init /\ [][Next]_vars

IsMermaidCall(call) == call.by = "mermaid_from_image"
Described(entry) == Strip(entry.description) # <<>>

\* C10: a call of mermaid_from_image with an empty or whitespace-only
\* description returns the sentinel and calls the agent not at all; with any
\* other description it calls the agent once and returns extract_mermaid_code
\* of the reply; so for one image's button as for a regeneration.
C10_MermaidFromImage ==
    LET calls == SelectSeq(ai_log, IsMermaidCall)
        described == SelectSeq(mermaid_log, Described)
    IN /\ Len(calls) = Len(described)
       /\ \A i \in 1..Len(mermaid_log) :
            /\ ~Described(mermaid_log[i]) => mermaid_log[i].result = NO_DESCRIPTION
            /\ mermaid_log[i].path = "generate" =>
                  mermaid_keys[mermaid_log[i].idx] = mermaid_log[i].result
            /\ mermaid_log[i].path = "regenerate" =>
                  image_mermaids[i] = mermaid_log[i].result
       /\ \A k \in 1..Len(described) :
            /\ calls[k].description = described[k].description
            /\ described[k].result =
                  extract_mermaid_code(bedrock_agent_ask(calls[k].outcome))

\* a regeneration over an image without a description and one with one
C10_Witness ==
    /\ stage = "md_review"
    /\ Len(mermaid_log) = 2
    /\ mermaid_log[1].path = "regenerate"
    /\ Described(mermaid_log[1])
    /\ ~Described(mermaid_log[2])
    /\ mermaid_log[2].result = NO_DESCRIPTION
    /\ mermaid_log[1].result = <<"A-->B">>
    /\ Len(SelectSeq(ai_log, IsMermaidCall)) = 1

IsMarkdownCall(call) == call.by = "markdown_from_ai"

\* what a run that has called markdown_from_ai leaves
DraftIsReply ==
    LET calls == SelectSeq(ai_log, IsMarkdownCall)
    IN /\ Len(calls) <= 1
       /\ calls # <<>> =>
             /\ stage = "md_review"
             /\ notice # EXCEPTION
             /\ ai_log[Len(ai_log)] = calls[1]
             /\ md_code = bedrock_agent_ask(calls[1].outcome)
             /\ md_code_edit = md_code

\* C11: a run that calls markdown_from_ai calls the agent for it once, and
\* the draft it leaves is what bedrock_agent_ask returned for that call, the
\* error string included; no such run ends in an exception; and every run
\* that enters the review stage or replaces its draft is such a run.
C11_DraftIsTheReply ==
    [][/\ DraftIsReply'
       /\ (stage' = "md_review" /\ (stage # "md_review" \/ md_code' # md_code))
             => Len(SelectSeq(ai_log', IsMarkdownCall)) = 1]_vars

\* the agent fails at a regeneration, and its error string is the draft
C11_Witness ==
    /\ stage = "md_review"
    /\ Len(mermaid_log) > 0
    /\ Len(SelectSeq(ai_log, IsMarkdownCall)) = 1
    /\ ~ai_log[Len(ai_log)].outcome.ok
    /\ md_code = BEDROCK_ERROR
    /\ md_code_edit = BEDROCK_ERROR

\* the call of markdown_from_ai in a run
MarkdownCall(log) == SelectSeq(log, IsMarkdownCall)[1]
\* a regeneration: a run of the review stage that calls markdown_from_ai
Regenerated ==
    /\ stage = "md_review"
    /\ stage' = "md_review"
    /\ SelectSeq(ai_log', IsMarkdownCall) # <<>>

\* C12: every regeneration hands the draft as it stands after the user's last
\* edit (md_code_edit) to the builder as doc_text, not the extracted text and
\* not the draft as last generated; after it md_code and md_code_edit are both
\* the new reply, so that the next regeneration works on this one's result.
C12_RegenerateFromCurrentDraft ==
    [][Regenerated =>
          /\ MarkdownCall(ai_log').doc_text = Shorten(md_code_edit)
          /\ md_code' = bedrock_agent_ask(MarkdownCall(ai_log').outcome)
          /\ md_code_edit' = md_code']_vars

\* a regeneration of a draft the user has edited: the builder was handed the
\* edited draft, which is neither the draft as generated nor the file's text
C12_Witness ==
    /\ stage = "md_review"
    /\ SelectSeq(ai_log, IsMarkdownCall) # <<>>
    /\ MarkdownCall(ai_log).custom_prompt # <<>>
    /\ MarkdownCall(ai_log).doc_text = <<"# RFC", SP, "edited">>
    /\ MarkdownCall(ai_log).doc_text # Shorten(text_content)
    /\ md_code = <<"# RFC">>
    /\ md_code_edit = md_code

\* what lines 286-290 make of a metadata dict
PromptMetadata(meta) ==
    [author |-> OrElse(Get(meta, "author"), <<"Unknown">>),
     topic |-> OrElse(Get(meta, "topic"), <<"Unknown">>),
     date |-> OrElse(Get(meta, "date"), Today),
     status |-> OrElse(Get(meta, "status"), <<"Draft">>),
     reviewers |-> OrElse(Get(meta, "reviewers"), <<"N/A">>)]
\* the five values in the prompt of a call of markdown_from_ai
CallMetadata(call) ==
    [author |-> call.author, topic |-> call.topic, date |-> call.date,
     status |-> call.status, reviewers |-> call.reviewers]

\* C13: a regeneration leaves the session's metadata as it is, and the file,
\* its name, the extracted text, the images and the external diagrams; the
\* builder is handed that metadata; and at the diagram and the review stage
\* the metadata is what the user entered at the metadata stage, which nothing
\* but "Extract & Convert", the default of the metadata stage and the logout
\* writes.
C13_RegenerationKeepsMetadata ==
    [][/\ stage' \in {"image_mermaid", "md_review"} => metadata' \in UserMetadatas
       /\ Regenerated =>
             /\ metadata' = metadata
             /\ CallMetadata(MarkdownCall(ai_log')) = PromptMetadata(metadata)
             /\ UNCHANGED <<file_content, file_name, text_content, images,
                            external_mermaid_diagrams>>
       /\ metadata' # metadata =>
             \/ stage = "metadata" /\ stage' = "image_mermaid"
             \/ stage = "file_choice" /\ stage' = "metadata"
             \/ stage = "md_review" /\ stage' = "login"]_vars

\* a regeneration for a user who entered no author and no reviewers
C13_Witness ==
    /\ stage = "md_review"
    /\ SelectSeq(ai_log, IsMarkdownCall) # <<>>
    /\ MarkdownCall(ai_log).custom_prompt # <<>>
    /\ metadata["author"] = <<>>
    /\ metadata["status"] = <<"Accepted">>
    /\ MarkdownCall(ai_log).author = <<"Unknown">>
    /\ MarkdownCall(ai_log).status = <<"Accepted">>
    /\ text_content # <<>>

\* the first generation: "Generate RFC Markdown with AI" at the diagram stage
Generated == stage = "image_mermaid" /\ stage' = "md_review"

\* 'Diagram 1' .. 'Diagram n' for the codes of a list, in its order
Numbered(codes) ==
    Concat([i \in 1..Len(codes) |->
               <<NL, "#### Diagram", SP, ToString(i), NL, FENCE, "mermaid", NL>>
                   \o codes[i] \o <<NL, FENCE, NL>>])

\* C14: the list of diagrams the builder is handed, at the first generation
\* and at every regeneration, has one entry for each extracted image, in the
\* order of the images, and behind them one for each external diagram, in the
\* order of external_mermaid_diagrams; and the builder writes them into the
\* prompt as Diagram 1 to Diagram n in the order of the list.
C14_DiagramsInOrder ==
    [][(Generated \/ Regenerated) =>
          LET call == MarkdownCall(ai_log')
              n == Len(images)
              m == Len(external_mermaid_diagrams)
          IN /\ Len(call.image_mermaids) = n + m
             /\ call.diagrams = Numbered(call.image_mermaids)
             /\ Generated =>
                   /\ \A i \in 1..n : call.image_mermaids[i] = mermaid_keys[i]
                   /\ \A j \in 1..m :
                         call.image_mermaids[n + j]
                             \in {external_mermaid_diagrams[j]} \cup MermaidEdits
             /\ Regenerated =>
                   /\ Len(mermaid_log') = n
                   /\ \A i \in 1..n :
                         /\ mermaid_log'[i].idx = i
                         /\ call.image_mermaids[i] = mermaid_log'[i].result
                   /\ \A j \in 1..m :
                         call.image_mermaids[n + j] = external_mermaid_diagrams[j]]_vars

\* a regeneration for a file with two images and three external diagrams
C14_Witness ==
    /\ stage = "md_review"
    /\ Len(images) = 2
    /\ Len(mermaid_log) = 2
    /\ SelectSeq(ai_log, IsMarkdownCall) # <<>>
    /\ Len(MarkdownCall(ai_log).image_mermaids) = 5
    /\ MarkdownCall(ai_log).image_mermaids[1] = <<"A-->B">>
    /\ MarkdownCall(ai_log).image_mermaids[2] = NO_DESCRIPTION
    /\ MarkdownCall(ai_log).image_mermaids[3] = DRAWIO_NOT_IMPLEMENTED
    /\ MarkdownCall(ai_log).image_mermaids[5] = <<"B-->C">>

\* final_md for some comment and some state of the check box
Commented(final, md) ==
    \E comment \in Comments, append \in BOOLEAN :
        final = WithComment(md, comment, append)

\* C15: the review never ends in an exception, whatever the loaded RFC text
\* is: when extract_metadata_from_markdown finds no header the notice is
\* shown and the final Markdown is the loaded text with the comment, if any;
\* when it finds one, whatever its five values, the fields are shown and the
\* final Markdown is the text with the fields written back, with the comment.
C15_ReviewNeverRaises ==
    (stage = "manager_comment" /\ rfc_md # <<>>) =>
        /\ notice # EXCEPTION
        /\ md_metadata = extract_metadata_from_markdown(rfc_md)
        /\ md_metadata = EmptyDict =>
              /\ notice \in {NO_METADATA, UPLOADED, UPLOAD_FAILED}
              /\ Commented(final_md, rfc_md)
        /\ md_metadata # EmptyDict =>
              /\ updated_md = update_metadata_in_markdown(rfc_md, updated_metadata)
              /\ Commented(final_md, updated_md)

\* a file is held: what line 502 asks for
FileHeld(content, name) == content.fmt # "empty" /\ name # <<>>

\* a file was selected: the session holds its bytes and its name
FileSelected ==
    /\ {"file_content", "file_name"} \subseteq session_keys
    /\ file_name # <<>>

\* C16: the stage changes by one step along login, choose_rfc_or_new,
\* file_choice, metadata, image_mermaid, md_review, forward or back, or from
\* md_review to login by the logout, or between choose_rfc_or_new and
\* manager_comment; and it goes forward from login only by a login that
\* succeeded, from file_choice only with a file held, from metadata only by
\* the extraction from that file, and into md_review only by a call of
\* markdown_from_ai.  So md_review is entered only after these four, in this
\* order.
C16_StageOrder ==
    [][stage' # stage =>
          \/ /\ stage = "login" /\ stage' = "choose_rfc_or_new"
             /\ LoginKeys \subseteq session_keys'
          \/ /\ stage = "choose_rfc_or_new"
             /\ stage' \in {"file_choice", "manager_comment", "login"}
          \/ stage = "manager_comment" /\ stage' = "choose_rfc_or_new"
          \/ /\ stage = "file_choice" /\ stage' = "metadata"
             /\ FileSelected'
          \/ stage = "file_choice" /\ stage' = "choose_rfc_or_new"
          \/ /\ stage = "metadata" /\ stage' = "image_mermaid"
             /\ FileSelected
             /\ text_content' = Text[Held]
             /\ \E net \in Networks :
                   <<images', external_mermaid_diagrams'>> = Processed[Held, net].value
          \/ stage = "metadata" /\ stage' = "file_choice"
          \/ /\ stage = "image_mermaid" /\ stage' = "md_review"
             /\ Len(SelectSeq(ai_log', IsMarkdownCall)) = 1
          \/ stage = "image_mermaid" /\ stage' = "metadata"
          \/ stage = "md_review" /\ stage' = "image_mermaid"
          \/ stage = "md_review" /\ stage' = "login" /\ session_keys' = {"stage"}]_vars

\* the review stage, entered by the first generation for an uploaded file
C16_Witness ==
    /\ stage = "md_review"
    /\ LoginKeys \subseteq session_keys
    /\ FileHeld(file_content, file_name)
    /\ file_name = <<"rfc", "docx">>
    /\ text_content = Text[Held]
    /\ Len(SelectSeq(ai_log, IsMarkdownCall)) = 1
    /\ MarkdownCall(ai_log).custom_prompt = <<>>
    /\ mermaid_log = <<>>

\* text_content, images and external_mermaid_diagrams are what lines 530-531
\* make of the file the session holds
Fresh ==
    /\ Held \in Holdable
    /\ text_content = Text[Held]
    /\ \E net \in Networks :
          /\ ~Processed[Held, net].raised
          /\ <<images, external_mermaid_diagrams>> = Processed[Held, net].value

\* C17: at the diagram stage and at the review stage the extracted text, the
\* images and the external diagrams are those of the file the session holds,
\* whatever files were held and extracted before; and the text the first
\* generation hands to the builder is that file's.
C17_ExtractedDataIsFresh ==
    stage \in {"image_mermaid", "md_review"} =>
        /\ Fresh
        /\ \A k \in 1..Len(ai_log) :
              (IsMarkdownCall(ai_log[k]) /\ ai_log[k].custom_prompt = <<>>) =>
                  ai_log[k].doc_text = Shorten(text_content)

\* the first generation for the Markdown file, in a session that has
\* extracted the document with its images before
C17_Witness ==
    /\ stage = "md_review"
    /\ file_name = <<"notes", "md">>
    /\ text_content = <<"notes", NL>>
    /\ images = <<>>
    /\ external_mermaid_diagrams = <<>>
    /\ Len(mermaid_keys) = 2
    /\ ai_log # <<>>
    /\ ai_log[1].custom_prompt = <<>>
    /\ ai_log[1].doc_text = <<"notes">>

\* the stages of lines 808-822
STAGES ==
    {"login", "choose_rfc_or_new", "manager_comment", "file_choice", "metadata",
     "image_mermaid", "md_review"}

\* what the session holds under the keys a stage reads
MetadataReads ==
    /\ {"file_content", "file_name"} \subseteq session_keys
    /\ FileHeld(file_content, file_name)
DiagramReads ==
    {"text_content", "images", "external_mermaid_diagrams", "metadata"}
        \subseteq session_keys
ReviewReads ==
    {"md_code", "diagram_type", "images", "external_mermaid_diagrams",
     "file_name"} \subseteq session_keys

\* C18: the stage is one of the seven of the dispatch; at every stage but
\* login the session holds s3_client and the credentials; at the metadata
\* stage it holds a file_content that is not empty and a file_name that is
\* not empty; at the diagram stage it holds text_content, images,
\* external_mermaid_diagrams and metadata; at the review stage it holds
\* md_code, diagram_type, images, external_mermaid_diagrams and file_name; and
\* the logout leaves the stage login and no other key in the session.
C18_StageKeys ==
    [][/\ stage' \in STAGES
       /\ stage' # "login" => LoginKeys \subseteq session_keys'
       /\ stage' = "metadata" => MetadataReads'
       /\ stage' = "image_mermaid" => DiagramReads'
       /\ stage' = "md_review" => ReviewReads'
       /\ (stage = "md_review" /\ stage' = "login") => session_keys' = {"stage"}]_vars

====
